---- MODULE Spec2Model ----
(***************************************************************************)
(* Model of the dual-path relevance classifier of CBDC_tacker:             *)
(*   src/src/services/relevance_service.py  (RelevanceService)             *)
(*   src/src/clients/zai_client.py          (ZaiClient)                    *)
(*   src/src/clients/openrouter_client.py   (OpenRouterClient)             *)
(*                                                                         *)
(* Python values are modelled as strings: "True", "False", "None" are the  *)
(* three singletons, "0" and "0.0" are numbers, every other string is a    *)
(* Python str.  Optional values are records with an isNone flag.           *)
(***************************************************************************)
EXTENDS Integers, Sequences, FiniteSets, TLC

VARIABLES
    api_key,      \* per client: the credential read from the environment at construction
    pc,           \* position of assess_relevance: "idle", "dispatched", "returned"
    title,        \* the three arguments of the running assess_relevance call
    abstract,
    content,
    task,         \* per provider: the _call_model task submitted to the thread pool
    calls,        \* per provider: number of chat_completion invocations
    attempts,     \* per provider: number of HTTP posts made
    sleeps,       \* per provider: number of time.sleep(2) calls made
    order,        \* providers in the order their tasks completed
    overlap,      \* both provider calls have been inside chat_completion at the same time
    results,      \* the results dict filled by the as_completed loop
    verdict,      \* the dict returned by assess_relevance
    parse_in,     \* argument of a stand-alone _parse_json call
    parse_out,    \* its return value
    all_csv,      \* the history file GLOBAL_ALL_CSV
    v2_csv,       \* the file beside it whose stem ends in _v2
    new_csv,      \* the delta file GLOBAL_NEW_CSV
    last_op,      \* the last ledger operation: its arguments, its return value, the files before it
    nops,         \* number of ledger operations and batch runs started
    proc,         \* the running processor.main: its frame, its position, its lists
    uid_calls,    \* the make_uid calls made: arguments and value
    pipe          \* run_pipeline: its position, its jobs, its child processes

classifier_vars == <<api_key, pc, title, abstract, content, task, calls, attempts, sleeps,
                     order, overlap, results, verdict, parse_in, parse_out>>

ledger_vars == <<all_csv, v2_csv, new_csv, last_op, nops, proc, uid_calls, pipe>>

vars == <<api_key, pc, title, abstract, content, task, calls, attempts, sleeps,
          order, overlap, results, verdict, parse_in, parse_out,
          all_csv, v2_csv, new_csv, last_op, nops, proc, uid_calls, pipe>>

----------------------------------------------------------------------------
(* Bounds *)

MaxLen == 3        \* total number of characters of title + abstract + content
MaxTextLen == 4    \* number of tokens of a text given to a stand-alone _parse_json

----------------------------------------------------------------------------
(* Python values *)

PyTrue == "True"
PyFalse == "False"
PyNone == "None"
Absent == "<absent>"     \* a key that the dict does not have

\* bool(v) of a Python value
Truthy(v) == v \notin {PyFalse, PyNone, "0", "0.0", ""}

\* a or b
PyOr(a, b) == IF Truthy(a) THEN a ELSE b

----------------------------------------------------------------------------
(* Provider text: a sequence of tokens *)

Tok(t, k, v) == [t |-> t, k |-> k, v |-> v]

LB == Tok("{", "", "")
RB == Tok("}", "", "")
LS == Tok("[", "", "")
RS == Tok("]", "", "")
CM == Tok(",", "", "")
WS == Tok("ws", "", "")               \* white space
PRIM == Tok("prim", "", "1")          \* a JSON primitive (number, string, true, false, null)
WORD == Tok("word", "", "")           \* prose, not JSON
FENCE_JSON == Tok("fence_json", "", "")   \* the opening markdown fence with its json tag
FENCE == Tok("fence", "", "")             \* a bare markdown fence
KV(k, v) == Tok("kv", k, v)           \* "k": v  with v a JSON primitive

Keys == {"is_relevant", "confidence_score", "title_cn", "summary", "reasoning"}

\* Optional[Dict]: None, or a dict over Keys
\* (the value of title_cn is a character sequence, like the title it can default to)
NoVal == [k \in Keys |-> IF k = "title_cn" THEN <<>> ELSE Absent]
NoneDict == [isNone |-> TRUE, keys |-> {}, val |-> NoVal]
EmptyDict == [isNone |-> FALSE, keys |-> {}, val |-> NoVal]

DictSet(d, k, v) ==
    [isNone |-> FALSE,
     keys |-> IF k \in Keys THEN d.keys \cup {k} ELSE d.keys,
     val |-> [x \in Keys |-> IF x = k THEN v ELSE d.val[x]]]

\* d.get(k, default)
DictGet(d, k, default) == IF k \in d.keys THEN d.val[k] ELSE default

\* bool(d) for an Optional[Dict]: None and {} are both falsy
DictTruthy(d) == ~d.isNone /\ d.keys # {}

----------------------------------------------------------------------------
(* json.loads on a token sequence *)

Fail == [ok |-> FALSE, pos |-> 0, kind |-> "none", dict |-> NoneDict]
Done(p, kind, d) == [ok |-> TRUE, pos |-> p, kind |-> kind, dict |-> d]

RECURSIVE SkipWs(_, _)
SkipWs(s, i) == IF i <= Len(s) /\ s[i].t = "ws" THEN SkipWs(s, i + 1) ELSE i

TokAt(s, i) == IF i <= Len(s) THEN s[i].t ELSE "eof"

RECURSIVE ParseValue(_, _)
RECURSIVE ParseMembers(_, _, _)
RECURSIVE ParseElements(_, _)

\* after "{" or ",": a member is required
ParseMembers(s, i, d) ==
    IF TokAt(s, i) # "kv" THEN Fail
    ELSE LET d2 == DictSet(d, s[i].k, s[i].v)
             j == SkipWs(s, i + 1)
         IN  CASE TokAt(s, j) = "}" -> Done(j + 1, "dict", d2)
               [] TokAt(s, j) = "," -> ParseMembers(s, SkipWs(s, j + 1), d2)
               [] OTHER -> Fail

\* after "[" or ",": an element is required
ParseElements(s, i) ==
    LET e == ParseValue(s, i)
    IN  IF ~e.ok THEN Fail
        ELSE LET j == SkipWs(s, e.pos)
             IN  CASE TokAt(s, j) = "]" -> Done(j + 1, "list", NoneDict)
                   [] TokAt(s, j) = "," -> ParseElements(s, SkipWs(s, j + 1))
                   [] OTHER -> Fail

ParseValue(s, i) ==
    CASE TokAt(s, i) = "prim" -> Done(i + 1, "prim", NoneDict)
      [] TokAt(s, i) = "{" ->
            LET j == SkipWs(s, i + 1)
            IN  IF TokAt(s, j) = "}" THEN Done(j + 1, "dict", EmptyDict)
                ELSE ParseMembers(s, j, EmptyDict)
      [] TokAt(s, i) = "[" ->
            LET j == SkipWs(s, i + 1)
            IN  IF TokAt(s, j) = "]" THEN Done(j + 1, "list", NoneDict)
                ELSE ParseElements(s, j)
      [] OTHER -> Fail

\* json.loads(text): the whole text is one JSON value, else it raises (ok = FALSE)
json_loads(s) ==
    LET r == ParseValue(s, SkipWs(s, 1))
    IN  IF r.ok /\ SkipWs(s, r.pos) = Len(s) + 1 THEN r ELSE Fail

----------------------------------------------------------------------------
(* RelevanceService._parse_json *)

RECURSIVE LStrip(_)
LStrip(s) == IF s # <<>> /\ Head(s).t = "ws" THEN LStrip(Tail(s)) ELSE s

RECURSIVE RStrip(_)
RStrip(s) == IF s # <<>> /\ s[Len(s)].t = "ws" THEN RStrip(SubSeq(s, 1, Len(s) - 1)) ELSE s

\* text.strip()
strip(s) == RStrip(LStrip(s))

\* if text.startswith(<fence json>): text = text[7:]
DropFenceStart(s) == IF s # <<>> /\ Head(s).t = "fence_json" THEN Tail(s) ELSE s

\* if text.endswith(<fence>): text = text[:-3]
DropFenceEnd(s) == IF s # <<>> /\ s[Len(s)].t = "fence" THEN SubSeq(s, 1, Len(s) - 1) ELSE s

\* re.search(r"\{.*\}", text, re.DOTALL): from the first "{" to the last "}" after it
BraceMatch(s) ==
    LET opens == {i \in 1..Len(s) : s[i].t = "{"}
        first == CHOOSE i \in opens : \A j \in opens : i <= j
        closes == {i \in 1..Len(s) : s[i].t = "}" /\ i > first}
        last == CHOOSE i \in closes : \A j \in closes : j <= i
    IN  IF opens = {} \/ closes = {} THEN s ELSE SubSeq(s, first, last)

\* isinstance(data, dict)
IsDict(r) == r.kind = "dict"

_parse_json(text) ==
    IF text = <<>> THEN NoneDict
    ELSE LET data == json_loads(BraceMatch(DropFenceEnd(DropFenceStart(strip(text)))))
         IN  IF ~data.ok THEN NoneDict
             ELSE IF IsDict(data) THEN data.dict
             ELSE NoneDict

----------------------------------------------------------------------------
(* The keyword filter of assess_relevance *)

\* characters of the record texts
Chars == {"D", "l", "t"}

\* str.lower() on one character
LowerChar(c) == IF c = "D" THEN "d" ELSE c

\* str.lower()
lower(s) == [i \in 1..Len(s) |-> LowerChar(s[i])]

\* the keywords of the list that can occur in a text over Chars
KEYWORDS_CBDC == {<<"d", "l", "t">>}

\* k in s (substring test)
Contains(s, k) ==
    \E i \in 1..(Len(s) - Len(k) + 1) : SubSeq(s, i, i + Len(k) - 1) = k

\* (str(title) + " " + str(abstract) + " " + str(content)).lower()
full_text(t, a, c) == lower(t \o <<" ">> \o a \o <<" ">> \o c)

\* the fields concatenated without the separating spaces
KeywordHit_unseparated(t, a, c) == \E k \in KEYWORDS_CBDC : Contains(lower(t \o a \o c), k)

\* any(k in full_text for k in self.KEYWORDS_CBDC)
KeywordHit(t, a, c) == \E k \in KEYWORDS_CBDC : Contains(full_text(t, a, c), k)

RECURSIVE SeqsUpTo(_, _)
SeqsUpTo(S, n) ==
    IF n = 0 THEN {<<>>}
    ELSE LET prev == SeqsUpTo(S, n - 1)
         IN  prev \cup {Append(s, x) : s \in {q \in prev : Len(q) = n - 1}, x \in S}

\* the texts of one record
Texts == SeqsUpTo(Chars, MaxLen)

----------------------------------------------------------------------------
(* What a provider can answer *)

Providers == {"Z.AI", "OpenRouter"}

\* Optional[str]
NoneText == [isNone |-> TRUE, text |-> <<>>]
SomeText(x) == [isNone |-> FALSE, text |-> x]

\* values a provider can put in is_relevant: the two booleans, null, and
\* non-boolean values (a number, a string, the string "ERROR")
RelValues == {PyTrue, PyFalse, PyNone, "0", "yes", "ERROR"}

\* a complete answer in the shape of the output contract
FullObj(rel) ==
    <<LB, KV("is_relevant", rel), CM, KV("confidence_score", "0.9"), CM,
      KV("title_cn", <<"T", "1">>), CM, KV("summary", "summary 1"), CM,
      KV("reasoning", "reason 1"), RB>>

\* an answer with only the verdict and the score
ShortObj(rel) ==
    <<LB, KV("is_relevant", rel), CM, KV("confidence_score", "0.2"), RB>>

\* the texts the endpoints answer with
ProviderTexts ==
    {FullObj(r) : r \in RelValues}
    \cup {ShortObj(r) : r \in {PyTrue, PyFalse}}
    \cup { <<LB, KV("confidence_score", "0.5"), RB>>,      \* no is_relevant
           <<LB, RB>>,                                     \* {}
           <<WORD, WORD>>,                                 \* Invalid JSON
           <<>>,                                           \* empty content
           <<FENCE_JSON, WS>> \o ShortObj(PyTrue) \o <<WS, FENCE>>,
           <<LS>> \o ShortObj(PyTrue) \o <<RS>> }          \* an array around an object

\* how one HTTP attempt ends
\*   ok                 the post succeeded and the body has the expected shape
\*   request_exception  requests.exceptions.RequestException (transport, timeout, HTTP status)
\*   bad_shape          the body is JSON but has no choices[0].message.content
HttpOutcomes == {"ok", "request_exception", "bad_shape"}

\* the os.environ.get(...) of a client's constructor: unset, empty, or a key
ApiKeys == {PyNone, "", "sk-key"}

----------------------------------------------------------------------------
(* ZaiClient.chat_completion / OpenRouterClient.chat_completion *)

\* only an unset variable counts as missing
KeyMissing_unset_only(k) == k = PyNone

\* if not self.api_key
KeyMissing(k) == ~Truthy(k)

\* for attempt in range(3)
AttemptRange == 0..2

\* the last value of attempt after which the handler still sleeps
LastRetry == 2

\* the comparison off by one
OnRequestException_off_by_one(attempt) ==
    IF attempt <= LastRetry THEN "sleep_retry" ELSE "return_none"

\* except requests.exceptions.RequestException: if attempt < 2: sleep, else return None
OnRequestException(attempt) == IF attempt < LastRetry THEN "sleep_retry" ELSE "return_none"

\* the exception leaves chat_completion
OnUnexpected_reraise(p) == "raise"

\* except Exception (Z.AI: a missing choices[0] is a KeyError or IndexError;
\* OpenRouter: the else branch of the choices test, or the same outer handler)
OnUnexpected(p) == "return_none"

\* what chat_completion does after one post that ended with outcome o
AfterAttempt(p, o, attempt) ==
    CASE o = "ok" -> "return_text"
      [] o = "request_exception" -> OnRequestException(attempt)
      [] o = "bad_shape" -> OnUnexpected(p)

----------------------------------------------------------------------------
(* RelevanceService._call_model *)

\* st: none, submitted, attempting, done, raised; attempt: the loop variable;
\* last: how the last post ended; raw, data, success: what the calls returned
NoTask ==
    [st |-> "none", attempt |-> 0, last |-> "none", raw |-> NoneText, data |-> NoneDict,
     success |-> FALSE]

\* parsed = self._parse_json(raw)
ParseRaw(raw) == _parse_json(raw.text)

\* the task after chat_completion returned raw: (name, None, False) or (name, parsed, True)
TaskReturn(t, raw) ==
    IF raw.isNone
    THEN [t EXCEPT !.st = "done", !.raw = raw, !.data = NoneDict, !.success = FALSE]
    ELSE [t EXCEPT !.st = "done", !.raw = raw, !.data = ParseRaw(raw), !.success = TRUE]

\* the task after an exception left chat_completion
TaskRaise(t) == [t EXCEPT !.st = "raised"]

Finished(t) == t.st \in {"done", "raised"}

----------------------------------------------------------------------------
(* RelevanceService.assess_relevance: the merge *)

NO_KEYWORDS == "(No Keywords)"
SKIPPED_REASON == "Skipped (Keyword)"
DUAL_FAILURE == "(Connection Error)"

Detail(rel, reason, status) == [is_relevant |-> rel, reason |-> reason, status |-> status]

NoVerdict ==
    [is_relevant |-> Absent, reasoning |-> Absent, confidence |-> Absent, title_cn |-> <<>>,
     summary |-> Absent, alert_needed |-> Absent,
     details |-> [zai |-> Detail(Absent, Absent, Absent), or |-> Detail(Absent, Absent, Absent)]]

\* the dict returned when no keyword matches (it has no alert_needed key)
SkipVerdict(t) ==
    [is_relevant |-> PyFalse, reasoning |-> NO_KEYWORDS, confidence |-> "0.0", title_cn |-> t,
     summary |-> "", alert_needed |-> Absent,
     details |-> [zai |-> Detail(PyFalse, SKIPPED_REASON, "skipped"),
                  or |-> Detail(PyFalse, SKIPPED_REASON, "skipped")]]

\* results.get(name, {}).get("data") and .get("success", False)
ResData(res, name) == IF name \in DOMAIN res THEN res[name].data ELSE NoneDict
ResSuccess(res, name) == IF name \in DOMAIN res THEN res[name].success ELSE FALSE

\* 4. Detailed Status Construction, for one provider
StatusOf(success, res) ==
    IF ~success THEN Detail(PyNone, "Connection Failed", "error")
    ELSE IF ~DictTruthy(res) THEN Detail(PyNone, "Parse Error", "parse_error")
    ELSE Detail(DictGet(res, "is_relevant", PyNone), DictGet(res, "reasoning", ""), "success")

\* if not zai_success and not or_success
CriticalFailure(zai_success, or_success) == ~zai_success /\ ~or_success

\* res.get("is_relevant", False) if res else False
IsRel(res) == IF DictTruthy(res) THEN DictGet(res, "is_relevant", PyFalse) ELSE PyFalse

\* and in place of or
FinalIsRelevant_and(is_rel_zai, is_rel_or) ==
    IF Truthy(is_rel_zai) THEN is_rel_or ELSE is_rel_zai

\* final_is_relevant = is_rel_zai or is_rel_or
FinalIsRelevant(is_rel_zai, is_rel_or) == PyOr(is_rel_zai, is_rel_or)

\* Pick best content
BestRes(zai_res, or_res) ==
    IF DictTruthy(zai_res) /\ Truthy(IsRel(zai_res)) THEN zai_res
    ELSE IF DictTruthy(or_res) /\ Truthy(IsRel(or_res)) THEN or_res
    ELSE IF DictTruthy(zai_res) THEN zai_res
    ELSE IF DictTruthy(or_res) THEN or_res
    ELSE EmptyDict

\* steps 4 and 5 of assess_relevance, from the results dict
Merge(t, res) ==
    LET zai_res == ResData(res, "Z.AI")
        zai_success == ResSuccess(res, "Z.AI")
        or_res == ResData(res, "OpenRouter")
        or_success == ResSuccess(res, "OpenRouter")
        details == [zai |-> StatusOf(zai_success, zai_res), or |-> StatusOf(or_success, or_res)]
        best_res == BestRes(zai_res, or_res)
    IN  IF CriticalFailure(zai_success, or_success)
        THEN [is_relevant |-> "ERROR", reasoning |-> DUAL_FAILURE, confidence |-> "0.0",
              title_cn |-> t, summary |-> "", alert_needed |-> PyTrue, details |-> details]
        ELSE [is_relevant |-> FinalIsRelevant(IsRel(zai_res), IsRel(or_res)),
              confidence |-> DictGet(best_res, "confidence_score", "0.0"),
              title_cn |-> DictGet(best_res, "title_cn", t),
              summary |-> DictGet(best_res, "summary", ""),
              reasoning |-> DictGet(best_res, "reasoning", ""),
              alert_needed |-> PyFalse, details |-> details]

----------------------------------------------------------------------------
(* utils.py: the CSV ledger.  A file is absent, empty (size 0) or holds a
   first row (the header) followed by data rows; a row is the sequence of
   its cells. *)

STANDARD_FIELDS ==
    <<"uid", "source", "entity", "category", "published_at", "title", "url",
      "abstract", "content", "content_type", "crawl_time", "is_relevant">>

\* processor.py: the columns the batch runner adds to a frame that lacks them
LABEL_COLUMNS == <<"is_relevant", "zai_is_relevant", "zai_reason", "or_is_relevant", "or_reason">>

AbsentFile == [st |-> "absent", header |-> <<>>, rows |-> <<>>]
EmptyFile == [st |-> "empty", header |-> <<>>, rows |-> <<>>]
DataFile(h, rs) == [st |-> "data", header |-> h, rows |-> rs]

\* path.exists() and path.stat().st_size > 0
HasData(f) == f.st = "data"

\* sanitize_text / str.strip on the cell values used here: None becomes "",
\* surrounding whitespace is removed
sanitize_text(s) ==
    CASE s = PyNone -> ""
      [] s = "u2 " -> "u2"
      [] OTHER -> s

\* r.get(k, "") on a row dict
RowGet(r, k) == IF k \in DOMAIN r THEN r[k] ELSE ""

clean_row_ragged(r, fields) == <<sanitize_text(RowGet(r, "uid")), sanitize_text(RowGet(r, "url"))>>

\* clean_row, in the order csv.DictWriter writes it
clean_row(r, fields) == [i \in 1..Len(fields) |-> sanitize_text(RowGet(r, fields[i]))]

\* position of a column in a header, 0 when the header lacks it
ColIndex(header, name) ==
    IF \E i \in 1..Len(header) : header[i] = name
    THEN CHOOSE i \in 1..Len(header) :
             header[i] = name /\ \A j \in 1..Len(header) : header[j] = name => j <= i
    ELSE 0

\* csv.DictReader: row.get(name), None for a missing column or a short row
Cell(header, row, name) ==
    LET i == ColIndex(header, name)
    IN  IF i = 0 \/ i > Len(row) THEN PyNone ELSE row[i]

\* (row.get(name) or "").strip()
KeyOf(header, row, name) ==
    LET v == Cell(header, row, name) IN IF v = PyNone THEN "" ELSE sanitize_text(v)

_read_header(f) == IF HasData(f) THEN f.header ELSE <<>>

load_existing_keys(f) ==
    IF ~HasData(f) \/ f.header = <<>>
    THEN [uids |-> {}, urls |-> {}]
    ELSE LET url_field == IF ColIndex(f.header, "url") # 0 THEN "url"
                          ELSE IF ColIndex(f.header, "link") # 0 THEN "link" ELSE PyNone
         IN  [uids |-> IF ColIndex(f.header, "uid") # 0
                       THEN {KeyOf(f.header, f.rows[i], "uid") : i \in 1..Len(f.rows)} \ {""}
                       ELSE {},
              urls |-> IF url_field # PyNone
                       THEN {KeyOf(f.header, f.rows[i], url_field) : i \in 1..Len(f.rows)} \ {""}
                       ELSE {}]

\* the loop over rows of write_incremental_csv: the rows kept, cleaned
RECURSIVE FilterRows(_, _, _, _, _)
FilterRows(rows, fields, dedupe_by, existing_uids, existing_urls) ==
    IF rows = <<>> THEN <<>>
    ELSE LET c == clean_row(Head(rows), fields)
             uid == KeyOf(fields, c, "uid")
             url == KeyOf(fields, c, "url")
             dup == \/ dedupe_by = "uid" /\ uid # "" /\ uid \in existing_uids
                    \/ dedupe_by = "url" /\ url # "" /\ url \in existing_urls
         IN  IF dup
             THEN FilterRows(Tail(rows), fields, dedupe_by, existing_uids, existing_urls)
             ELSE <<c>> \o FilterRows(Tail(rows), fields, dedupe_by,
                                      IF uid # "" THEN existing_uids \cup {uid} ELSE existing_uids,
                                      IF url # "" THEN existing_urls \cup {url} ELSE existing_urls)

\* the write to new_csv: mode "a" only for append_new on a non-empty file
WriteNew(f, filtered, fields, append_new) ==
    IF append_new /\ HasData(f)
    THEN [f EXCEPT !.rows = @ \o filtered]
    ELSE DataFile(fields, filtered)

StripAll(header) == [i \in 1..Len(header) |-> sanitize_text(header[i])]

HeaderMismatch_never(f, fields) == FALSE

\* the header test that redirects the history write to the _v2 file
HeaderMismatch(f, fields) ==
    /\ HasData(f)
    /\ _read_header(f) # <<>>
    /\ StripAll(_read_header(f)) # fields

AppendHistory_truncate(f, filtered, fields) == DataFile(fields, filtered)

\* the write to the history target: mode "w" with a header only when the
\* target is missing or empty, mode "a" otherwise
AppendHistory(f, filtered, fields) ==
    IF HasData(f)
    THEN [f EXCEPT !.rows = @ \o filtered]
    ELSE DataFile(fields, filtered)

validate_csv_format(f, expected_fields) ==
    /\ f.st # "absent"
    /\ f.st # "empty"
    /\ Len(f.header) = Len(expected_fields)
    /\ \A i \in 1..Len(f.rows) : Len(f.rows[i]) = Len(expected_fields)

\* the record of a ledger operation, before any was made
NoCall ==
    [op |-> "none", rows |-> <<>>, append_new |-> FALSE, dedupe_by |-> "uid", ret |-> 0,
     target |-> "none", valid_new |-> FALSE, valid_all |-> FALSE,
     pre_all |-> AbsentFile, pre_v2 |-> AbsentFile, pre_new |-> AbsentFile]

\* processor.py main: the frame being processed and the lists it fills
\* report: the records handed to generate_word_report; mail: what
\* send_email_with_attachment was given (the alert block and its entries)
NoStats == [total_new |-> 0, total_relevant |-> 0, total_errors |-> 0]
ProcIdle ==
    [st |-> "idle", cols |-> <<>>, df |-> <<>>, idx |-> 0, raised |-> <<>>,
     processing_results |-> <<>>, relevant_articles |-> <<>>,
     alert_triggered |-> FALSE, alert_details |-> <<>>, stats |-> NoStats,
     report |-> <<>>, mail |-> [sent |-> FALSE, alert |-> FALSE, listed |-> <<>>]]

\* the classifier at rest, for the behaviours of the ledger and the batch runner
ClassifierIdle ==
    /\ api_key = [p \in Providers |-> "sk-key"]
    /\ pc = "idle"
    /\ title = <<>>
    /\ abstract = <<>>
    /\ content = <<>>
    /\ task = [p \in Providers |-> NoTask]
    /\ calls = [p \in Providers |-> 0]
    /\ attempts = [p \in Providers |-> 0]
    /\ sleeps = [p \in Providers |-> 0]
    /\ order = <<>>
    /\ overlap = FALSE
    /\ results = <<>>
    /\ verdict = NoVerdict
    /\ parse_in = <<>>
    /\ parse_out = NoneDict

\* no pipeline run: jobs counts the selected jobs, todo those not yet started,
\* running holds the child processes alive, mark is nops at the last call,
\* exits the outcomes of the jobs of this run, selected the jobs of all runs
\* so far, classified the uids of the records classified so far
PipeIdle ==
    [st |-> "idle", jobs |-> 0, todo |-> 0, running |-> {}, mark |-> 0, runs |-> 0,
     selected |-> 0, exits |-> <<>>, classified |-> <<>>]

\* no ledger file, no ledger operation and no batch run
LedgerIdle ==
    /\ all_csv = AbsentFile
    /\ v2_csv = AbsentFile
    /\ new_csv = AbsentFile
    /\ last_op = NoCall
    /\ nops = 0
    /\ proc = ProcIdle
    /\ uid_calls = <<>>
    /\ pipe = PipeIdle

----------------------------------------------------------------------------
(* The state machine of one RelevanceService and one assess_relevance call *)

Init ==
    /\ api_key \in [Providers -> ApiKeys]
    /\ pc = "idle"
    /\ title = <<>>
    /\ abstract = <<>>
    /\ content = <<>>
    /\ task = [p \in Providers |-> NoTask]
    /\ calls = [p \in Providers |-> 0]
    /\ attempts = [p \in Providers |-> 0]
    /\ sleeps = [p \in Providers |-> 0]
    /\ order = <<>>
    /\ overlap = FALSE
    /\ results = <<>>
    /\ verdict = NoVerdict
    /\ parse_in = <<>>
    /\ parse_out = NoneDict
    /\ LedgerIdle

\* assess_relevance is called: the keyword filter, then the two executor.submit
assess_relevance ==
    /\ pc = "idle"
    /\ \E t \in Texts :
         \E a \in SeqsUpTo(Chars, MaxLen - Len(t)) :
           \E c \in SeqsUpTo(Chars, MaxLen - Len(t) - Len(a)) :
             /\ title' = t
             /\ abstract' = a
             /\ content' = c
             /\ IF ~KeywordHit(t, a, c)
                THEN /\ verdict' = SkipVerdict(t)
                     /\ pc' = "returned"
                     /\ task' = task
                ELSE /\ verdict' = verdict
                     /\ pc' = "dispatched"
                     /\ task' = [p \in Providers |-> [NoTask EXCEPT !.st = "submitted"]]
    /\ UNCHANGED <<api_key, calls, attempts, sleeps, order, overlap, results, parse_in, parse_out, ledger_vars>>

\* a pool thread starts _call_model and enters chat_completion
StartCall(p) ==
    /\ task[p].st = "submitted"
    /\ calls' = [calls EXCEPT ![p] = @ + 1]
    /\ IF KeyMissing(api_key[p])
       THEN /\ task' = [task EXCEPT ![p] = TaskReturn(@, NoneText)]
            /\ order' = Append(order, p)
       ELSE /\ task' = [task EXCEPT ![p].st = "attempting"]
            /\ order' = order
    /\ overlap' = (overlap \/ \A q \in Providers : task'[q].st = "attempting")
    /\ UNCHANGED <<api_key, pc, title, abstract, content, attempts, sleeps, results,
                   verdict, parse_in, parse_out, ledger_vars>>

\* one iteration of the retry loop: the post, then the handler of its outcome
Attempt(p) ==
    /\ task[p].st = "attempting"
    /\ attempts' = [attempts EXCEPT ![p] = @ + 1]
    /\ \E o \in HttpOutcomes : \E txt \in (IF o = "ok" THEN ProviderTexts ELSE {<<>>}) :
         LET next == AfterAttempt(p, o, task[p].attempt)
             t == [task[p] EXCEPT !.last = o]
         IN  CASE next = "return_text" ->
                    /\ task' = [task EXCEPT ![p] = TaskReturn(t, SomeText(txt))]
                    /\ order' = Append(order, p)
                    /\ sleeps' = sleeps
               [] next = "return_none" ->
                    /\ task' = [task EXCEPT ![p] = TaskReturn(t, NoneText)]
                    /\ order' = Append(order, p)
                    /\ sleeps' = sleeps
               [] next = "sleep_retry" ->
                    /\ sleeps' = [sleeps EXCEPT ![p] = @ + 1]
                    /\ IF t.attempt + 1 \in AttemptRange
                       THEN /\ task' = [task EXCEPT ![p] = [t EXCEPT !.attempt = @ + 1]]
                            /\ order' = order
                       ELSE \* the loop ends and the function falls off its end
                            /\ task' = [task EXCEPT ![p] = TaskReturn(t, NoneText)]
                            /\ order' = Append(order, p)
               [] OTHER ->
                    /\ task' = [task EXCEPT ![p] = TaskRaise(t)]
                    /\ order' = Append(order, p)
                    /\ sleeps' = sleeps
    /\ UNCHANGED <<api_key, pc, title, abstract, content, calls, overlap, results, verdict,
                   parse_in, parse_out, ledger_vars>>

\* the as_completed loop takes a finished future: future.result() and results[name] = ...
Collect(p) ==
    /\ pc = "dispatched"
    /\ Finished(task[p])
    /\ p \notin DOMAIN results
    /\ IF task[p].st = "raised"
       THEN /\ pc' = "raising"
            /\ results' = results
       ELSE /\ pc' = pc
            /\ results' = [q \in DOMAIN results \cup {p} |->
                             IF q = p THEN [data |-> task[p].data, success |-> task[p].success]
                             ELSE results[q]]
    /\ UNCHANGED <<api_key, title, abstract, content, task, calls, attempts, sleeps, order,
                   overlap, verdict, parse_in, parse_out, ledger_vars>>

\* the loop left at the first completed future
AllCollected_first(res) == DOMAIN res # {}

\* the as_completed loop has yielded both futures
AllCollected(res) == DOMAIN res = Providers

\* the with block ends (every task has finished) and assess_relevance returns
Return ==
    /\ (pc = "dispatched" /\ AllCollected(results)) \/ pc = "raising"
    /\ \A p \in Providers : Finished(task[p])
    /\ IF pc = "raising"
       THEN /\ pc' = "raised"
            /\ verdict' = verdict
       ELSE /\ pc' = "returned"
            /\ verdict' = Merge(title, results)
    /\ UNCHANGED <<api_key, title, abstract, content, task, calls, attempts, sleeps, order,
                   overlap, results, parse_in, parse_out, ledger_vars>>

Next ==
    \/ assess_relevance
    \/ \E p \in Providers : StartCall(p)
    \/ \E p \in Providers : Attempt(p)
    \/ \E p \in Providers : Collect(p)
    \/ Return

Spec == Init /\ [][Next]_vars

----------------------------------------------------------------------------
(* _parse_json on its own, applied to every text of bounded length *)

\* the tokens of the texts given to a stand-alone _parse_json
ParseTokens ==
    {LB, RB, LS, RS, CM, WS, PRIM, WORD, FENCE_JSON, FENCE, KV("is_relevant", PyTrue)}

ParseInit ==
    /\ api_key = [p \in Providers |-> PyNone]
    /\ pc = "parse_idle"
    /\ title = <<>>
    /\ abstract = <<>>
    /\ content = <<>>
    /\ task = [p \in Providers |-> NoTask]
    /\ calls = [p \in Providers |-> 0]
    /\ attempts = [p \in Providers |-> 0]
    /\ sleeps = [p \in Providers |-> 0]
    /\ order = <<>>
    /\ overlap = FALSE
    /\ results = <<>>
    /\ verdict = NoVerdict
    /\ parse_in \in SeqsUpTo(ParseTokens, MaxTextLen)
    /\ parse_out = NoneDict
    /\ LedgerIdle

\* parse_out = self._parse_json(parse_in)
ParseCall ==
    /\ pc = "parse_idle"
    /\ pc' = "parse_done"
    /\ parse_out' = _parse_json(parse_in)
    /\ UNCHANGED <<api_key, title, abstract, content, task, calls, attempts, sleeps, order,
                   overlap, results, verdict, parse_in, ledger_vars>>

ParseNext == ParseCall

SpecParse == ParseInit /\ [][ParseNext]_vars

----------------------------------------------------------------------------
(* The ledger operations as a state machine *)

MaxOps == 2        \* number of ledger operations in one behaviour
MaxBatch == 2      \* number of rows handed to one write_incremental_csv call

\* rows as the scrapers build them; keys a row lacks read as ""
ROW_A == [uid |-> "u1", url |-> "url1", title |-> "Dlt"]
ROW_B == [uid |-> "u2 ", url |-> "url2", title |-> "tl"]
ROW_C == [uid |-> "", url |-> "url1", title |-> "tl"]
InputRows == {ROW_A, ROW_B, ROW_C}

\* a header after the batch runner has added the columns it lacks
RECURSIVE AddColumns(_, _)
AddColumns(header, cols) ==
    IF cols = <<>> THEN header
    ELSE AddColumns(IF ColIndex(header, Head(cols)) = 0 THEN Append(header, Head(cols)) ELSE header,
                    Tail(cols))

LABELLED_FIELDS == AddColumns(STANDARD_FIELDS, LABEL_COLUMNS)

\* a row of an earlier run, before and after the batch runner labelled it
OldRow(r) == clean_row(r, STANDARD_FIELDS)
LabelledRow(r) ==
    [i \in 1..Len(LABELLED_FIELDS) |->
        CASE LABELLED_FIELDS[i] = "is_relevant" -> "FALSE"
          [] LABELLED_FIELDS[i] \in {"zai_is_relevant", "or_is_relevant"} -> "False"
          [] LABELLED_FIELDS[i] \in {"zai_reason", "or_reason"} -> ""
          [] OTHER -> sanitize_text(RowGet(r, LABELLED_FIELDS[i]))]

\* contents the three files can have when an operation starts
PriorHistory ==
    {AbsentFile, EmptyFile,
     DataFile(STANDARD_FIELDS, <<OldRow(ROW_A)>>),
     DataFile(LABELLED_FIELDS, <<LabelledRow(ROW_A)>>)}
PriorAlternate == {AbsentFile, DataFile(STANDARD_FIELDS, <<OldRow(ROW_B)>>)}
PriorDelta ==
    {AbsentFile,
     DataFile(STANDARD_FIELDS, <<OldRow(ROW_B)>>),
     DataFile(LABELLED_FIELDS, <<LabelledRow(ROW_A)>>)}

write_incremental_csv(rows, append_new, dedupe_by) ==
    LET fields == STANDARD_FIELDS
        existing == load_existing_keys(all_csv)
        filtered == FilterRows(rows, fields, dedupe_by, existing.uids, existing.urls)
        redirect == HeaderMismatch(all_csv, fields)
        new_after == WriteNew(new_csv, filtered, fields, append_new)
        all_after == AppendHistory(IF redirect THEN v2_csv ELSE all_csv, filtered, fields)
    IN  /\ proc.st # "running"
        /\ nops < MaxOps
        /\ nops' = nops + 1
        /\ IF filtered = <<>>
           THEN UNCHANGED <<all_csv, v2_csv, new_csv>>
           ELSE /\ new_csv' = new_after
                /\ all_csv' = IF redirect THEN all_csv ELSE all_after
                /\ v2_csv' = IF redirect THEN all_after ELSE v2_csv
        /\ last_op' = [op |-> "write", rows |-> rows, append_new |-> append_new,
                    dedupe_by |-> dedupe_by, ret |-> Len(filtered),
                    target |-> IF filtered = <<>> THEN "none"
                               ELSE IF redirect THEN "v2" ELSE "all",
                    valid_new |-> filtered # <<>> /\ validate_csv_format(new_after, fields),
                    valid_all |-> filtered # <<>> /\ validate_csv_format(all_after, fields),
                    pre_all |-> all_csv, pre_v2 |-> v2_csv, pre_new |-> new_csv]
        /\ UNCHANGED <<proc, uid_calls, pipe, classifier_vars>>

init_global_new_csv ==
    /\ proc.st # "running"
    /\ nops < MaxOps
    /\ nops' = nops + 1
    /\ new_csv' = DataFile(STANDARD_FIELDS, <<>>)
    /\ last_op' = [NoCall EXCEPT !.op = "init", !.pre_all = all_csv, !.pre_v2 = v2_csv,
                              !.pre_new = new_csv]
    /\ UNCHANGED <<all_csv, v2_csv, proc, uid_calls, pipe, classifier_vars>>

LedgerInit ==
    /\ ClassifierIdle
    /\ all_csv \in PriorHistory
    /\ v2_csv \in PriorAlternate
    /\ HasData(v2_csv) => HeaderMismatch(all_csv, STANDARD_FIELDS)
    /\ new_csv \in PriorDelta
    /\ last_op = NoCall
    /\ nops = 0
    /\ proc = ProcIdle
    /\ uid_calls = <<>>
    /\ pipe = PipeIdle

LedgerNext ==
    \/ \E rows \in SeqsUpTo(InputRows, MaxBatch), append_new \in BOOLEAN,
          dedupe_by \in {"uid", "url"} :
          write_incremental_csv(rows, append_new, dedupe_by)
    \/ init_global_new_csv

SpecLedger == LedgerInit /\ [][LedgerNext]_vars

----------------------------------------------------------------------------
(* processor.py: the batch runner over the delta file *)

\* the characters of a cell, as assess_relevance receives them
CellText(s) ==
    CASE s = "Dlt" -> <<"D", "l", "t">>
      [] s = "tl" -> <<"t", "l">>
      [] OTHER -> <<>>

\* pandas.read_csv: the cells read as missing, and the boolean literals
NA_VALUES == {"", "None"}
TRUE_VALUES == {"True", "TRUE", "true"}
FALSE_VALUES == {"False", "FALSE", "false"}

\* a cell after its column's type was inferred and the frame written back
\* with to_csv: missing cells are empty, a column of boolean literals is
\* written as True and False, other text is kept
ReadCell(rows, i, v) ==
    LET present == {rows[k][i] : k \in 1..Len(rows)} \ NA_VALUES
        is_bool == present # {} /\ present \subseteq (TRUE_VALUES \cup FALSE_VALUES)
    IN  IF v \in NA_VALUES THEN ""
        ELSE IF is_bool THEN (IF v \in TRUE_VALUES THEN "True" ELSE "False")
        ELSE v

\* pd.read_csv(path): a row longer than the header is a parser error, a
\* shorter one is filled with missing cells; an empty file is an error
read_csv(f) ==
    IF f.st # "data" \/ \E k \in 1..Len(f.rows) : Len(f.rows[k]) > Len(f.header)
    THEN [ok |-> FALSE, cols |-> <<>>, rows |-> <<>>]
    ELSE LET padded == [k \in 1..Len(f.rows) |->
                           [i \in 1..Len(f.header) |->
                               IF i <= Len(f.rows[k]) THEN f.rows[k][i] ELSE ""]]
         IN  [ok |-> TRUE, cols |-> f.header,
              rows |-> [k \in 1..Len(padded) |->
                           [i \in 1..Len(f.header) |-> ReadCell(padded, i, padded[k][i])]]]

\* for col in [...]: if col not in df.columns: df[col] = ""
WithLabelColumns(frame) ==
    LET cols == AddColumns(frame.cols, LABEL_COLUMNS)
    IN  [ok |-> frame.ok, cols |-> cols,
         rows |-> [k \in 1..Len(frame.rows) |->
                      [i \in 1..Len(cols) |->
                          IF i <= Len(frame.rows[k]) THEN frame.rows[k][i] ELSE ""]]]

\* df.at[index, name] = v
SetCell(cols, row, name, v) == [row EXCEPT ![ColIndex(cols, name)] = v]

\* what the two providers can have answered for one record
BatchProviderResults ==
    [Providers ->
        {[data |-> NoneDict, success |-> FALSE],
         [data |-> ParseRaw(SomeText(FullObj(PyTrue))), success |-> TRUE],
         [data |-> ParseRaw(SomeText(FullObj(PyFalse))), success |-> TRUE]}]

\* the dicts service.assess_relevance can return for a record
AssessOutcomes(t, a, c) ==
    IF KeywordHit(t, a, c)
    THEN {Merge(t, res) : res \in BatchProviderResults}
    ELSE {SkipVerdict(t)}

ExceptionResult_silent ==
    [NoVerdict EXCEPT !.is_relevant = PyFalse, !.reasoning = "Exception", !.confidence = "0.0"]

\* the dict built by the except branch around assess_relevance; its details are {}
ExceptionResult ==
    [NoVerdict EXCEPT !.is_relevant = "ERROR", !.reasoning = "Exception",
                      !.confidence = "0.0", !.alert_needed = PyTrue]

\* d.get(k, default) on a result or a detail dict
GetOr(d, k, default) == IF d[k] = Absent THEN default ELSE d[k]

IsTrue_truthy(is_rel) == Truthy(is_rel)

\* is_rel is True
IsTrue(is_rel) == is_rel = PyTrue

\* the text written to the is_relevant column
Label(is_rel) ==
    IF IsTrue(is_rel) THEN "TRUE" ELSE IF is_rel = "ERROR" THEN "ERROR" ELSE "FALSE"

\* the number of alert entries put into the mail
ALERT_LIMIT == 10

AlertSummary_all(alert_details) == alert_details

\* alert_details[:10]
AlertSummary(alert_details) ==
    SubSeq(alert_details, 1, IF Len(alert_details) < ALERT_LIMIT THEN Len(alert_details)
                             ELSE ALERT_LIMIT)

\* step 1 of main: load the delta file; return when there is nothing to do
ProcStart ==
    LET frame == WithLabelColumns(read_csv(new_csv))
    IN  /\ proc.st # "running"
        /\ nops < MaxOps
        /\ nops' = nops + 1
        /\ last_op' = [NoCall EXCEPT !.op = "process", !.pre_all = all_csv,
                                     !.pre_v2 = v2_csv, !.pre_new = new_csv]
        /\ proc' = IF ~HasData(new_csv) \/ ~frame.ok \/ frame.rows = <<>>
                   THEN ProcIdle
                   ELSE [ProcIdle EXCEPT !.st = "running", !.cols = frame.cols,
                                         !.df = frame.rows]
        /\ UNCHANGED <<all_csv, v2_csv, new_csv, uid_calls, pipe, classifier_vars>>

\* the frame and the lists after the record at proc.idx + 1 got its result
Recorded(p, result, raises) ==
    LET index == p.idx + 1
        row == p.df[index]
        is_rel == GetOr(result, "is_relevant", PyNone)
        reason == GetOr(result, "reasoning", "")
        alert == Truthy(GetOr(result, "alert_needed", PyNone))
        zai_det == result.details.zai
        or_det == result.details.or
        row1 == SetCell(p.cols, row, "is_relevant", Label(is_rel))
        row2 == SetCell(p.cols, row1, "zai_is_relevant",
                        GetOr(zai_det, "is_relevant", PyNone))
        row3 == SetCell(p.cols, row2, "zai_reason", GetOr(zai_det, "reason", ""))
        row4 == SetCell(p.cols, row3, "or_is_relevant",
                        GetOr(or_det, "is_relevant", PyNone))
        row5 == SetCell(p.cols, row4, "or_reason", GetOr(or_det, "reason", ""))
    IN  [p EXCEPT
            !.idx = index,
            !.df[index] = row5,
            !.raised = IF raises THEN Append(@, index) ELSE @,
            !.alert_triggered = @ \/ alert,
            !.alert_details = IF alert THEN Append(@, index) ELSE @,
            !.relevant_articles = IF IsTrue(is_rel) THEN Append(@, index) ELSE @,
            !.processing_results =
                Append(@, [title |-> Cell(p.cols, row, "title"),
                           url |-> Cell(p.cols, row, "url"),
                           is_relevant |-> is_rel, reason |-> reason,
                           zai_status |-> GetOr(zai_det, "status", PyNone),
                           or_status |-> GetOr(or_det, "status", PyNone)])]

\* one iteration of the loop over df.iterrows()
ProcRecord ==
    /\ proc.st = "running"
    /\ proc.idx < Len(proc.df)
    /\ LET row == proc.df[proc.idx + 1]
           text(name) == CellText(Cell(proc.cols, row, name))
       IN  \E raises \in BOOLEAN,
              returned \in AssessOutcomes(text("title"), text("abstract"), text("content")) :
              proc' = Recorded(proc, IF raises THEN ExceptionResult ELSE returned, raises)
    /\ UNCHANGED <<all_csv, v2_csv, new_csv, last_op, nops, uid_calls, pipe, classifier_vars>>

\* status_map = dict(zip(df['uid'], df[col])): the last frame row with the uid
StatusRow(cols, df, uid) ==
    LET hits == {k \in 1..Len(df) : Cell(cols, df[k], "uid") = uid}
    IN  IF uid = "" \/ hits = {} THEN 0 ELSE CHOOSE k \in hits : \A j \in hits : j <= k

\* step 4 of main: the rewrite of the history file from the labelled frame
UpdateHistory(f, cols, df) ==
    LET all == WithLabelColumns(read_csv(f))
        mapped(row) ==
            LET k == StatusRow(cols, df, Cell(all.cols, row, "uid"))
            IN  [i \in 1..Len(all.cols) |->
                    IF k # 0 /\ \E n \in 1..Len(LABEL_COLUMNS) : LABEL_COLUMNS[n] = all.cols[i]
                    THEN Cell(cols, df[k], all.cols[i])
                    ELSE row[i]]
    IN  IF f.st = "absent" \/ ~all.ok THEN f
        ELSE IF ColIndex(cols, "uid") = 0 \/ ColIndex(all.cols, "uid") = 0 THEN f
        ELSE DataFile(all.cols, [k \in 1..Len(all.rows) |-> mapped(all.rows[k])])

\* steps 3 to 7 of main, after the loop: save the frame over the delta file,
\* update the history file, compute the statistics, send the mail
ProcFinish ==
    /\ proc.st = "running"
    /\ proc.idx = Len(proc.df)
    /\ new_csv' = DataFile(proc.cols, proc.df)
    /\ all_csv' = UpdateHistory(all_csv, proc.cols, proc.df)
    /\ proc' = [proc EXCEPT
           !.st = "done",
           !.report = proc.relevant_articles,
           !.mail = [sent |-> TRUE, alert |-> proc.alert_triggered,
                     listed |-> IF proc.alert_triggered
                                THEN AlertSummary(proc.alert_details) ELSE <<>>],
           !.stats = [total_new |-> Len(proc.df),
                      total_relevant |-> Len(proc.relevant_articles),
                      total_errors |->
                          Cardinality({k \in 1..Len(proc.processing_results) :
                                          proc.processing_results[k].is_relevant = "ERROR"})]]
    /\ UNCHANGED <<v2_csv, last_op, nops, uid_calls, pipe, classifier_vars>>

\* a further row of a scraper, with a keyword in its title
ROW_D == [uid |-> "u3", url |-> "url3", title |-> "Dlt"]
ScrapedRows == {ROW_A, ROW_B, ROW_D}

\* the files before the first run, as one pipeline run over ROW_A left them,
\* and as the next run has them once it has reset the delta file
BatchInit ==
    /\ ClassifierIdle
    /\ \/ all_csv = AbsentFile /\ new_csv = AbsentFile
       \/ /\ all_csv = DataFile(LABELLED_FIELDS, <<LabelledRow(ROW_A)>>)
          /\ new_csv = DataFile(LABELLED_FIELDS, <<LabelledRow(ROW_A)>>)
       \/ /\ all_csv = DataFile(LABELLED_FIELDS, <<LabelledRow(ROW_A)>>)
          /\ new_csv = DataFile(STANDARD_FIELDS, <<>>)
    /\ v2_csv = AbsentFile
    /\ last_op = NoCall
    /\ nops = 0
    /\ proc = ProcIdle
    /\ uid_calls = <<>>
    /\ pipe = PipeIdle

\* the scrapers call write_incremental_csv with append_new=True and the defaults
BatchNext ==
    \/ \E rows \in SeqsUpTo(ScrapedRows, MaxBatch) : write_incremental_csv(rows, TRUE, "uid")
    \/ init_global_new_csv
    \/ ProcStart
    \/ ProcRecord
    \/ ProcFinish

SpecBatch == BatchInit /\ [][BatchNext]_vars

----------------------------------------------------------------------------
(* processor.py: a batch of many records, for the alert summary *)

MaxRecords == 11    \* number of records in the delta file of such a batch

\* the k-th row of a scraper run of n rows: only the last has a keyword
RecordRow(k, n) ==
    [uid |-> "n" \o ToString(k), url |-> "url" \o ToString(k),
     title |-> IF k = n THEN "Dlt" ELSE "tl"]

\* a scraper run of n new rows before its batch run was started
AlertInit ==
    /\ ClassifierIdle
    /\ \E n \in 1..MaxRecords :
          LET rows == [k \in 1..n |-> OldRow(RecordRow(k, n))]
          IN  /\ all_csv = DataFile(STANDARD_FIELDS, rows)
              /\ new_csv = DataFile(STANDARD_FIELDS, rows)
    /\ v2_csv = AbsentFile
    /\ last_op = NoCall
    /\ nops = MaxOps - 1
    /\ proc = ProcIdle
    /\ uid_calls = <<>>
    /\ pipe = PipeIdle

AlertNext ==
    \/ ProcStart
    \/ ProcRecord
    \/ ProcFinish

SpecAlert == AlertInit /\ [][AlertNext]_vars

----------------------------------------------------------------------------
(* main.py: run_pipeline and run_job, over the ledger and the batch runner *)

MaxRuns == 2    \* pipeline runs in a row
MaxJobs == 3    \* jobs selected in these runs, all together

\* what a scraper job hands to write_incremental_csv: nothing, or one of two
\* articles, neither with a keyword
JobRows == SeqsUpTo({RecordRow(1, 3), RecordRow(2, 3)}, 1)

\* a fresh installation; nops leaves room for the operations of MaxRuns runs
PipelineInit ==
    /\ ClassifierIdle
    /\ all_csv = AbsentFile
    /\ v2_csv = AbsentFile
    /\ new_csv = AbsentFile
    /\ last_op = NoCall
    /\ nops = MaxOps - (2 * MaxRuns + MaxJobs)
    /\ proc = ProcIdle
    /\ uid_calls = <<>>
    /\ pipe = PipeIdle

\* run_pipeline(selected_jobs) is entered with n selected jobs; the test for
\* an existing report at its head is never made, because the name it imports
\* from src.processor is not defined there and the ImportError is passed over
run_pipeline ==
    /\ pipe.st = "idle"
    /\ pipe.runs < MaxRuns
    /\ \E n \in 0..(MaxJobs - pipe.selected) :
          pipe' = [pipe EXCEPT !.st = IF n > 0 THEN "init" ELSE "jobs",
                               !.jobs = n, !.todo = n, !.mark = nops, !.exits = <<>>,
                               !.selected = @ + n]
    /\ UNCHANGED <<all_csv, v2_csv, new_csv, last_op, nops, proc, uid_calls, classifier_vars>>

\* the loop is at its head: the delta file is reset, no call is pending
AtLoopHead(p) == (p.st = "init" /\ nops > p.mark) \/ p.st \in {"jobs", "job"}

CanStartNext_popen(p) == TRUE

\* subprocess.run returns when the child has exited
CanStartNext(p) == p.running = {}

\* run_job(job): the child process of the next job is started
run_job ==
    /\ AtLoopHead(pipe)
    /\ pipe.todo > 0
    /\ CanStartNext(pipe)
    /\ pipe' = [pipe EXCEPT !.st = "job", !.todo = @ - 1, !.mark = nops,
                            !.running = @ \cup {pipe.todo}]
    /\ UNCHANGED <<all_csv, v2_csv, new_csv, last_op, nops, proc, uid_calls, classifier_vars>>

\* a child process ends, with return code 0 or not
JobExit ==
    /\ pipe.st = "job"
    /\ \E j \in pipe.running, ok \in BOOLEAN :
          pipe' = [pipe EXCEPT !.running = @ \ {j},
                               !.exits = Append(@, ok),
                               !.st = IF pipe.running = {j} THEN "jobs" ELSE "job"]
    /\ UNCHANGED <<all_csv, v2_csv, new_csv, last_op, nops, proc, uid_calls, classifier_vars>>

\* after the loop: run_processor() is called
run_processor ==
    /\ AtLoopHead(pipe)
    /\ pipe.todo = 0
    /\ CanStartNext(pipe)
    /\ pipe' = [pipe EXCEPT !.st = "processor", !.mark = nops]
    /\ UNCHANGED <<all_csv, v2_csv, new_csv, last_op, nops, proc, uid_calls, classifier_vars>>

\* run_processor() has returned and with it run_pipeline
PipelineReturn ==
    /\ pipe.st = "processor"
    /\ nops > pipe.mark
    /\ proc.st # "running"
    /\ pipe' = [pipe EXCEPT
           !.st = "idle", !.runs = @ + 1,
           !.classified = @ \o [i \in 1..Len(proc.processing_results) |->
                                   KeyOf(proc.cols, proc.df[i], "uid")]]
    /\ UNCHANGED <<all_csv, v2_csv, new_csv, last_op, nops, proc, uid_calls, classifier_vars>>

\* a scraper calls write_incremental_csv once, at its end, if it gets there
PipelineNext ==
    \/ run_pipeline
    \/ pipe.st = "init" /\ nops = pipe.mark /\ init_global_new_csv
    \/ run_job
    \/ /\ pipe.st = "job" /\ nops = pipe.mark
       /\ \E rows \in JobRows : write_incremental_csv(rows, TRUE, "uid")
    \/ JobExit
    \/ run_processor
    \/ pipe.st = "processor" /\ nops = pipe.mark /\ ProcStart
    \/ pipe.st = "processor" /\ ProcRecord
    \/ pipe.st = "processor" /\ ProcFinish
    \/ PipelineReturn

SpecPipeline == PipelineInit /\ [][PipelineNext]_vars

----------------------------------------------------------------------------
(* processor.py main over RelevanceService.assess_relevance: the loop of the
   batch runner with the calls of each record spelled out *)

MaxRunRecords == 2    \* records in the delta file of such a run

\* a delta file of one or more scraped rows, before processor.main is started
RunInit ==
    /\ ClassifierIdle
    /\ \E rows \in SeqsUpTo({ROW_A, ROW_B}, MaxRunRecords) \ {<<>>} :
          LET written == [k \in 1..Len(rows) |-> OldRow(rows[k])]
          IN  /\ all_csv = DataFile(STANDARD_FIELDS, written)
              /\ new_csv = DataFile(STANDARD_FIELDS, written)
    /\ v2_csv = AbsentFile
    /\ last_op = NoCall
    /\ nops = MaxOps - 1
    /\ proc = ProcIdle
    /\ uid_calls = <<>>
    /\ pipe = PipeIdle

\* result = service.assess_relevance(title, abstract, content) is entered
\* for the next record of the frame
RecordCall ==
    /\ proc.st = "running"
    /\ proc.idx < Len(proc.df)
    /\ LET row == proc.df[proc.idx + 1]
           text(name) == CellText(Cell(proc.cols, row, name))
       IN  /\ assess_relevance
           /\ title' = text("title")
           /\ abstract' = text("abstract")
           /\ content' = text("content")

ResultReady_eager(p) == p # "idle"

\* the call is synchronous: the loop goes on when it has returned or raised
ResultReady(p) == p \in {"returned", "raised"}

\* the rest of the iteration: the labels and the lists; the next call starts
\* with a new executor
RecordReturn ==
    /\ proc.st = "running"
    /\ proc.idx < Len(proc.df)
    /\ ResultReady(pc)
    /\ proc' = Recorded(proc, IF pc = "returned" THEN verdict ELSE ExceptionResult,
                        pc # "returned")
    /\ pc' = "idle"
    /\ title' = <<>>
    /\ abstract' = <<>>
    /\ content' = <<>>
    /\ task' = [p \in Providers |-> NoTask]
    /\ calls' = [p \in Providers |-> 0]
    /\ attempts' = [p \in Providers |-> 0]
    /\ sleeps' = [p \in Providers |-> 0]
    /\ order' = <<>>
    /\ overlap' = FALSE
    /\ results' = <<>>
    /\ verdict' = NoVerdict
    /\ UNCHANGED <<api_key, parse_in, parse_out, all_csv, v2_csv, new_csv, last_op, nops,
                   uid_calls, pipe>>

\* the loop is over, the statements after it have not run
AfterLoop == pc = "idle" /\ proc.st = "running" /\ proc.idx = Len(proc.df)

\* an endpoint that answers gives a complete verdict; what the verdict says
\* has no part in the order of the calls
RunTexts == {FullObj(PyTrue)}

RunNext ==
    \/ ProcStart
    \/ RecordCall
    \/ \E p \in Providers : StartCall(p)
    \/ \E p \in Providers :
          Attempt(p) /\ (task'[p].raw.isNone \/ task'[p].raw.text \in RunTexts)
    \/ \E p \in Providers : Collect(p)
    \/ Return
    \/ RecordReturn
    \/ AfterLoop /\ ProcFinish

SpecRun == RunInit /\ [][RunNext]_vars

\* every thread that can take a step takes one and every post returns or
\* times out: weak fairness of each step of the loop and of the calls. The
\* last conjunct is weak fairness of ProcFinish, which is enabled exactly
\* when AfterLoop holds and leaves it: the statements after the loop are
\* not put off for ever.
SpecRunFair ==
    /\ SpecRun
    /\ WF_vars(RecordCall)
    /\ \A p \in Providers : WF_vars(StartCall(p))
    /\ \A p \in Providers : WF_vars(Attempt(p))
    /\ \A p \in Providers : WF_vars(Collect(p))
    /\ WF_vars(Return)
    /\ WF_vars(RecordReturn)
    /\ []<>~AfterLoop

----------------------------------------------------------------------------
(* utils.py make_uid, applied to bounded arguments *)

MaxUidLen == 2      \* number of characters of a source and of a url
MaxUidCalls == 2    \* number of make_uid calls in one behaviour

UidChars == {"a", "|"}

\* hashlib.sha256(raw).hexdigest(), taken as injective on raw
sha256(raw) == <<"sha256", raw>>

\* raw = f"{source}|{url}"
make_uid(source, url) == sha256(source \o <<"|">> \o url)

UidInit ==
    /\ ClassifierIdle
    /\ LedgerIdle

CallMakeUid ==
    /\ Len(uid_calls) < MaxUidCalls
    /\ \E source \in SeqsUpTo(UidChars, MaxUidLen), url \in SeqsUpTo(UidChars, MaxUidLen) :
          uid_calls' = Append(uid_calls, [source |-> source, url |-> url,
                                          uid |-> make_uid(source, url)])
    /\ UNCHANGED <<all_csv, v2_csv, new_csv, last_op, nops, proc, pipe, classifier_vars>>

UidNext == CallMakeUid

SpecUid == UidInit /\ [][UidNext]_vars

----------------------------------------------------------------------------
(* Vocabulary of the properties *)

ZAI == "Z.AI"
OPENROUTER == "OpenRouter"
Other(p) == IF p = ZAI THEN OPENROUTER ELSE ZAI

\* the key of a provider in the details of a verdict
DetailKey(p) == IF p = ZAI THEN "zai" ELSE "or"

\* some keyword is a substring of the lower-cased "title abstract content"
HasKeyword == \E k \in KEYWORDS_CBDC : Contains(full_text(title, abstract, content), k)

\* the outcome of a provider: the client returned null, or text that parse
\* turned into null, or text that parse turned into an object
Outcome(p) ==
    IF task[p].st # "done" THEN "none"
    ELSE IF task[p].raw.isNone THEN "ConnectionFailure"
    ELSE IF task[p].data.isNone THEN "ParseError"
    ELSE "Success"

\* the is_relevant field of the object a provider returned
Asserted(p) == DictGet(task[p].data, "is_relevant", Absent)

AssertedTrue(p) == Outcome(p) = "Success" /\ Asserted(p) = PyTrue

\* the provider answered within the output contract: no object, or an object
\* whose is_relevant is a boolean or missing
Contractual(p) == Outcome(p) # "Success" \/ Asserted(p) \in {PyTrue, PyFalse, Absent}

\* what both tasks returned, as the results dict of a call that collected both
TaskResults == [p \in Providers |-> [data |-> task[p].data, success |-> task[p].success]]

----------------------------------------------------------------------------
(* C1..C10 *)

BothNull == \A p \in Providers : task[p].st = "done" /\ task[p].raw.isNone

\* C2: a returned verdict has alert_needed = True iff both clients returned
\* null; in that case is_relevant is "ERROR" with the dual-failure reasoning,
\* and in every other case (keyword skip included) alert_needed is not True
\* and is_relevant is not "ERROR".
C2_AlertIffBothNull ==
    pc = "returned" =>
        /\ (verdict.alert_needed = PyTrue) <=> BothNull
        /\ BothNull => (verdict.is_relevant = "ERROR" /\ verdict.reasoning = DUAL_FAILURE)
        /\ ~BothNull => verdict.is_relevant # "ERROR"

\* C3: when both providers failed, each by a connection failure or a parse
\* error, the verdict is is_relevant = "ERROR" and the alert flag is set.
C3_BothFailedIsError ==
    (/\ pc = "returned"
     /\ HasKeyword
     /\ \A p \in Providers : Outcome(p) \in {"ConnectionFailure", "ParseError"})
    => (verdict.is_relevant = "ERROR" /\ verdict.alert_needed = PyTrue)

\* C4: when no keyword occurs in the lower-cased text, no client is invoked at
\* any point of the call, no task is ever submitted, and the call has returned
\* is_relevant = False with the no-keyword reasoning and both statuses skipped.
C4_KeywordShortCircuit ==
    (pc # "idle" /\ ~HasKeyword) =>
        /\ pc = "returned"
        /\ verdict.is_relevant = PyFalse
        /\ verdict.reasoning = NO_KEYWORDS
        /\ \A p \in Providers :
             /\ calls[p] = 0
             /\ attempts[p] = 0
             /\ task[p].st = "none"
             /\ verdict.details[DetailKey(p)].status = "skipped"

\* a near miss: the letters of the keyword are there, split over two fields
C4_Witness ==
    /\ pc = "returned"
    /\ ~HasKeyword
    /\ title = <<"D", "l">>
    /\ abstract = <<"t">>
    /\ verdict.reasoning = NO_KEYWORDS
    /\ \A p \in Providers : calls[p] = 0

\* C5: no client is invoked twice, and when the filter passed and the call has
\* returned, each client was invoked exactly once, both tasks have completed,
\* and the verdict is the merge of what the two tasks returned, whichever
\* completed first.
C5_WaitsForBoth ==
    /\ \A p \in Providers : calls[p] <= 1
    /\ (pc = "returned" /\ HasKeyword) =>
          /\ \A p \in Providers : calls[p] = 1 /\ task[p].st = "done"
          /\ verdict = Merge(title, TaskResults)

\* the two calls overlapped, Z.AI failed first, OpenRouter succeeded later,
\* and the verdict is OpenRouter's True
C5_Witness ==
    /\ pc = "returned"
    /\ overlap
    /\ order = <<ZAI, OPENROUTER>>
    /\ Outcome(ZAI) = "ConnectionFailure"
    /\ attempts[ZAI] = 3
    /\ AssertedTrue(OPENROUTER)
    /\ verdict.is_relevant = PyTrue

\* the provider whose fields the merged verdict shows
ContentSource ==
    IF AssertedTrue(ZAI) THEN ZAI
    ELSE IF AssertedTrue(OPENROUTER) THEN OPENROUTER
    ELSE IF Outcome(ZAI) = "Success" THEN ZAI
    ELSE OPENROUTER

\* C6: in a merged verdict of contract-conforming answers, confidence, title
\* translation, summary and reasoning are those of Z.AI if it succeeded and
\* asserted true, else of OpenRouter if it succeeded and asserted true, else
\* of the first successful provider in the order Z.AI, OpenRouter.
C6_ContentPriority ==
    (/\ pc = "returned"
     /\ HasKeyword
     /\ \A p \in Providers : Contractual(p)
     /\ \E p \in Providers : Outcome(p) = "Success")
    => LET d == task[ContentSource].data
       IN  /\ verdict.confidence = DictGet(d, "confidence_score", "0.0")
           /\ verdict.title_cn = DictGet(d, "title_cn", title)
           /\ verdict.summary = DictGet(d, "summary", "")
           /\ verdict.reasoning = DictGet(d, "reasoning", "")

\* C7: every returned verdict carries one status per provider: skipped iff
\* the filter rejected the record, error iff the client returned null,
\* parse_error iff it returned text and parse returned null, success iff
\* parse returned an object.
C7_StatusPerOutcome ==
    pc = "returned" =>
        \A p \in Providers :
            LET s == verdict.details[DetailKey(p)].status
            IN  /\ s \in {"skipped", "error", "parse_error", "success"}
                /\ (s = "skipped") <=> ~HasKeyword
                /\ HasKeyword =>
                     /\ (s = "error") <=> (Outcome(p) = "ConnectionFailure")
                     /\ (s = "parse_error") <=> (Outcome(p) = "ParseError")
                     /\ (s = "success") <=> (Outcome(p) = "Success")

\* the JSON value the text carries: the text without its fences, read as JSON
Carried(text) == json_loads(DropFenceEnd(DropFenceStart(strip(text))))

\* C8: for every text whose top-level JSON value is an array or a primitive,
\* whatever the array contains, _parse_json returns None.
C8_RejectsNonObjects ==
    (pc = "parse_done" /\ Carried(parse_in).ok /\ Carried(parse_in).kind \in {"list", "prim"})
    => parse_out.isNone

C9_Inv ==
    \A p \in Providers :
        /\ calls[p] <= 1
        /\ attempts[p] <= 3
        /\ task[p].st # "raised"
        /\ task[p].st = "attempting" =>
             (attempts[p] = task[p].attempt /\ attempts[p] < 3 /\ sleeps[p] = attempts[p])
        /\ (task[p].st = "done" /\ attempts[p] > 0) => sleeps[p] = attempts[p] - 1
        /\ (task[p].st = "done" /\ task[p].last = "ok") => ~task[p].raw.isNone
        /\ (task[p].st = "done" /\ task[p].last = "request_exception") =>
             (attempts[p] = 3 /\ task[p].raw.isNone)

C9_Step ==
    \A p \in Providers :
        Finished(task[p]) => (attempts'[p] = attempts[p] /\ sleeps'[p] = sleeps[p]
                              /\ task'[p] = task[p])

\* C9: one chat_completion call makes at most 3 posts; it sleeps after a
\* failed post only when another post follows; a successful post ends the
\* call with its text and a third failed post ends it with None; once the
\* call has ended nothing more is posted; no exception leaves the call; and
\* one classification invokes each client at most once.
C9_RetryBudget == []C9_Inv /\ [][C9_Step]_vars

\* three failed posts, two sleeps, None returned
C9_Witness ==
    /\ task[ZAI].st = "done"
    /\ task[ZAI].last = "request_exception"
    /\ attempts[ZAI] = 3
    /\ sleeps[ZAI] = 2
    /\ task[ZAI].raw.isNone

\* C10: a client whose credential is unset or empty never posts and never
\* sleeps; its call returns None; the classification is not aborted and
\* records status error for that provider.
C10_MissingKeySoftFailure ==
    \A p \in Providers :
        api_key[p] \in {PyNone, ""} =>
            /\ attempts[p] = 0
            /\ sleeps[p] = 0
            /\ task[p].st \in {"none", "submitted", "done"}
            /\ task[p].st = "done" => task[p].raw.isNone
            /\ pc \notin {"raising", "raised"}
            /\ (pc = "returned" /\ HasKeyword) =>
                 verdict.details[DetailKey(p)].status = "error"

\* Z.AI has no key, OpenRouter has one and asserts true: the verdict is True
C10_Witness ==
    /\ pc = "returned"
    /\ api_key[ZAI] = PyNone
    /\ api_key[OPENROUTER] = "sk-key"
    /\ calls[ZAI] = 1
    /\ attempts[ZAI] = 0
    /\ verdict.details.zai.status = "error"
    /\ verdict.is_relevant = PyTrue

----------------------------------------------------------------------------
(* Vocabulary of the ledger properties *)

Width == Len(STANDARD_FIELDS)

\* the last operation was a write_incremental_csv call
WriteDone == last_op.op = "write"

\* the history file the last call appended to, now and before the call
TargetNow == IF last_op.target = "v2" THEN v2_csv ELSE all_csv
TargetBefore == IF last_op.target = "v2" THEN last_op.pre_v2 ELSE last_op.pre_all

\* the rows a file gained: those beyond the rows it held before
Gained(before, now) == SubSeq(now.rows, Len(before.rows) + 1, Len(now.rows))

\* the uid and the url a data row of a file carries under the file's header
UidAt(f, i) == KeyOf(f.header, f.rows[i], "uid")
UrlAt(f, i) == KeyOf(f.header, f.rows[i], "url")
KeysIn(f, by) ==
    {IF by = "uid" THEN UidAt(f, i) ELSE UrlAt(f, i) : i \in 1..Len(f.rows)} \ {""}

\* the dedup key of the i-th candidate row of a call
CandidateKey(c, i) == sanitize_text(RowGet(c.rows[i], c.dedupe_by))

\* number of rows in the history, the alternate file included
HistoryCount(a, v) == Len(a.rows) + Len(v.rows)

\* the rows of a call all carry a key, no two the same, none in the history
FreshBatch(c) ==
    /\ c.rows # <<>>
    /\ \A i \in 1..Len(c.rows) :
          /\ CandidateKey(c, i) # ""
          /\ CandidateKey(c, i) \notin KeysIn(c.pre_all, c.dedupe_by) \cup KeysIn(c.pre_v2, c.dedupe_by)
          /\ \A j \in 1..Len(c.rows) : CandidateKey(c, j) = CandidateKey(c, i) => j = i

\* f keeps everything g held: same header, g's rows first
Extends(g, f) ==
    g.st = "data" =>
        /\ f.st = "data"
        /\ f.header = g.header
        /\ Len(f.rows) >= Len(g.rows)
        /\ SubSeq(f.rows, 1, Len(g.rows)) = g.rows

\* every row of a file, the header included, has the width of the field list
Conforms(f) ==
    /\ f.st = "data"
    /\ Len(f.header) = Width
    /\ \A i \in 1..Len(f.rows) : Len(f.rows[i]) = Width

----------------------------------------------------------------------------
(* Claims C11 to C17: the ledger *)

\* C11: two successive write_incremental_csv calls with the same N rows
\* (N rows with distinct keys the history does not hold) return N and then 0,
\* and the history has grown by exactly N rows after both.
C11_Step ==
    (/\ WriteDone
     /\ nops' = nops + 1
     /\ last_op'.op = "write"
     /\ last_op'.rows = last_op.rows
     /\ last_op'.dedupe_by = last_op.dedupe_by
     /\ last_op'.append_new = last_op.append_new
     /\ FreshBatch(last_op))
    => /\ last_op.ret = Len(last_op.rows)
       /\ last_op'.ret = 0
       /\ HistoryCount(all_csv', v2_csv')
            = HistoryCount(last_op.pre_all, last_op.pre_v2) + Len(last_op.rows)
C11_Idempotent == [][C11_Step]_vars

\* C12: no uid ever occurs in two rows of the history, whichever of the
\* history file and the alternate file received the rows.
C12_UidOnce ==
    \A u \in KeysIn(all_csv, "uid") \cup KeysIn(v2_csv, "uid") :
        Cardinality({i \in 1..Len(all_csv.rows) : UidAt(all_csv, i) = u})
          + Cardinality({i \in 1..Len(v2_csv.rows) : UidAt(v2_csv, i) = u}) <= 1

\* C13: the value returned is the number of rows appended to the history by
\* the call, the same rows as written to the delta file, and is the number of
\* candidate rows whose key was neither in the history when the call started
\* nor carried by an earlier row of the batch (a row without a key has none
\* to repeat).
C13_ReturnCount ==
    WriteDone =>
        LET c == last_op
            counted == {i \in 1..Len(c.rows) :
                           \/ CandidateKey(c, i) = ""
                           \/ /\ CandidateKey(c, i) \notin
                                   KeysIn(c.pre_all, c.dedupe_by) \cup KeysIn(c.pre_v2, c.dedupe_by)
                              /\ \A j \in 1..(i - 1) : CandidateKey(c, j) # CandidateKey(c, i)}
        IN  /\ c.ret = HistoryCount(all_csv, v2_csv) - HistoryCount(c.pre_all, c.pre_v2)
            /\ c.ret > 0 =>
                 SubSeq(new_csv.rows, Len(new_csv.rows) - c.ret + 1, Len(new_csv.rows))
                   = Gained(TargetBefore, TargetNow)
            /\ c.ret = Cardinality(counted)

\* C14: after a write_incremental_csv call with append_new = False the delta
\* file holds only the rows that call accepted, none when it accepted none;
\* it never carries rows of an earlier run.
C14_DeltaOnlyThisCall ==
    (WriteDone /\ ~last_op.append_new) =>
        new_csv.rows = IF last_op.ret = 0 THEN <<>> ELSE Gained(TargetBefore, TargetNow)

C16_AllRowsConform ==
    (WriteDone /\ last_op.ret > 0) => (Conforms(new_csv) /\ Conforms(TargetNow))

\* C16 amended: the rows a call writes have the width of the field list, and
\* so has the header of a file the call creates or overwrites; what a file
\* held before an append stays as it was; validation returns true exactly
\* when the whole file conforms and changes neither file.
C16_WrittenRowsConform ==
    (WriteDone /\ last_op.ret > 0) =>
        LET appended == last_op.append_new /\ last_op.pre_new.st = "data"
            new_rows == IF appended THEN Gained(last_op.pre_new, new_csv) ELSE new_csv.rows
            all_rows == Gained(TargetBefore, TargetNow)
        IN  /\ Len(new_rows) = last_op.ret
            /\ Len(all_rows) = last_op.ret
            /\ \A i \in 1..last_op.ret : Len(new_rows[i]) = Width /\ Len(all_rows[i]) = Width
            /\ IF appended THEN Extends(last_op.pre_new, new_csv)
                           ELSE new_csv.header = STANDARD_FIELDS
            /\ IF TargetBefore.st = "data" THEN Extends(TargetBefore, TargetNow)
                                           ELSE TargetNow.header = STANDARD_FIELDS
            /\ last_op.valid_new = Conforms(new_csv)
            /\ last_op.valid_all = Conforms(TargetNow)

\* rows were appended to a delta file left with the wider header of a batch
\* run: validation reported the file and left it as written
C16_Witness ==
    /\ WriteDone
    /\ last_op.ret = 1
    /\ last_op.append_new
    /\ last_op.pre_new.header = LABELLED_FIELDS
    /\ ~last_op.valid_new
    /\ Len(new_csv.rows) = 2
    /\ Len(new_csv.rows[1]) = Len(LABELLED_FIELDS)
    /\ Len(new_csv.rows[2]) = Width

\* C17: a write_incremental_csv call keeps every row the history file and the
\* alternate file held, unchanged and in place; a non-empty history file is
\* never truncated or rewritten.
C17_AppendOnly ==
    WriteDone => (Extends(last_op.pre_all, all_csv) /\ Extends(last_op.pre_v2, v2_csv))

\* a call appended a new row after the row the history file already held
C17_Witness ==
    /\ WriteDone
    /\ last_op.pre_all = DataFile(STANDARD_FIELDS, <<OldRow(ROW_A)>>)
    /\ last_op.target = "all"
    /\ Len(all_csv.rows) = 2
    /\ all_csv.rows[1] = OldRow(ROW_A)
    /\ UidAt(all_csv, 2) = "u2"

----------------------------------------------------------------------------
(* Claim C18: make_uid *)

\* C18: make_uid returns the same value for the same arguments and different
\* values for any two (source, url) pairs that differ, the hash being
\* injective on its input.
C18_UidIdentifiesPair ==
    \A i, j \in 1..Len(uid_calls) :
        (uid_calls[i].uid = uid_calls[j].uid)
          <=> (uid_calls[i].source = uid_calls[j].source /\ uid_calls[i].url = uid_calls[j].url)

----------------------------------------------------------------------------
(* Claims C19 and C20: the batch runner *)

BatchDone == proc.st = "done"

\* the uid of the i-th record of the frame
RecordUid(i) == KeyOf(proc.cols, proc.df[i], "uid")

\* the rows of a ledger file that carry a uid
RowsOf(f, uid) == {k \in 1..Len(f.rows) : UidAt(f, k) = uid}

\* C19: an exception raised while one record is classified becomes a result
\* with is_relevant ERROR and the alert flag set; the records before and
\* after it are processed, and every record gets exactly one result entry.
C19_ExceptionIsolated ==
    proc.st \in {"running", "done"} =>
        /\ Len(proc.processing_results) = proc.idx
        /\ BatchDone => proc.idx = Len(proc.df)
        /\ \A i \in 1..proc.idx :
              proc.processing_results[i].url = Cell(proc.cols, proc.df[i], "url")
        /\ \A k \in 1..Len(proc.raised) :
              LET i == proc.raised[k]
              IN  /\ i <= proc.idx
                  /\ proc.processing_results[i].is_relevant = "ERROR"
                  /\ Cell(proc.cols, proc.df[i], "is_relevant") = "ERROR"
                  /\ proc.alert_triggered
                  /\ \E n \in 1..Len(proc.alert_details) : proc.alert_details[n] = i

\* the second of three records raised; the first came out relevant, the third not
C19_Witness ==
    /\ BatchDone
    /\ Len(proc.df) = 3
    /\ proc.raised = <<2>>
    /\ Len(proc.processing_results) = 3
    /\ proc.processing_results[1].is_relevant = PyTrue
    /\ proc.processing_results[3].is_relevant = PyFalse
    /\ proc.stats.total_errors = 1

\* C20: after the batch run every record whose verdict is ERROR has its row
\* in the ledger with is_relevant ERROR, is counted in total_errors and is
\* not among the relevant records.
C20_ErrorPersisted ==
    BatchDone =>
        /\ \A i \in 1..Len(proc.processing_results) :
              proc.processing_results[i].is_relevant = "ERROR" =>
                  /\ \E f \in {all_csv, v2_csv} : \E k \in RowsOf(f, RecordUid(i)) :
                        Cell(f.header, f.rows[k], "is_relevant") = "ERROR"
                  /\ \A n \in 1..Len(proc.relevant_articles) : proc.relevant_articles[n] # i
        /\ proc.stats.total_errors =
             Cardinality({i \in 1..Len(proc.processing_results) :
                             proc.processing_results[i].is_relevant = "ERROR"})
        /\ proc.stats.total_relevant =
             Cardinality({i \in 1..Len(proc.processing_results) :
                             proc.processing_results[i].is_relevant = PyTrue})

----------------------------------------------------------------------------
(* processor.py: the report, the labels, the statistics and the mail *)

\* the indices of the processed records whose result satisfies P, in order
RecordsWhere(P(_)) ==
    SelectSeq([i \in 1..Len(proc.processing_results) |-> i],
              LAMBDA i : P(proc.processing_results[i]))

CameOutTrue(r) == r.is_relevant = PyTrue
CameOutError(r) == r.is_relevant = "ERROR"

\* C21: the report generator receives exactly the records whose verdict is
\* true; every record carries exactly one of the labels TRUE, ERROR and FALSE,
\* the one of its verdict; relevant plus errors never exceed the records of
\* the run.
C21_ReportAndLabels ==
    BatchDone =>
        /\ proc.report = RecordsWhere(CameOutTrue)
        /\ \A i \in 1..Len(proc.df) :
              LET label == Cell(proc.cols, proc.df[i], "is_relevant")
                  r == proc.processing_results[i]
              IN  /\ label \in {"TRUE", "ERROR", "FALSE"}
                  /\ label = "TRUE" <=> r.is_relevant = PyTrue
                  /\ label = "ERROR" <=> r.is_relevant = "ERROR"
        /\ proc.stats.total_new = Len(proc.df)
        /\ proc.stats.total_relevant + proc.stats.total_errors <= proc.stats.total_new

\* a run over three records: one relevant, one failed, one not relevant
C21_Witness ==
    /\ BatchDone
    /\ Len(proc.df) = 3
    /\ proc.report = <<3>>
    /\ Cell(proc.cols, proc.df[1], "is_relevant") = "ERROR"
    /\ Cell(proc.cols, proc.df[2], "is_relevant") = "FALSE"
    /\ Cell(proc.cols, proc.df[3], "is_relevant") = "TRUE"
    /\ proc.stats = [total_new |-> 3, total_relevant |-> 1, total_errors |-> 1]

C25_TrueNeedsConfidence ==
    (pc = "returned" /\ verdict.is_relevant = PyTrue) =>
        verdict.confidence \notin {"0.0", "0.2", "0.5"}

\* C26: whatever the providers put into is_relevant, the is_relevant of the
\* verdict is one of true, false and ERROR.
C26_VerdictDomain ==
    pc = "returned" => verdict.is_relevant \in {PyTrue, PyFalse, "ERROR"}

\* the history file as the batch run found it, once the run is over
HistoryBefore == last_op.pre_all
Processed == BatchDone /\ last_op.op = "process" /\ HistoryBefore.st = "data"

\* the uids of the records of the run
DeltaUids == {RecordUid(i) : i \in 1..Len(proc.df)} \ {""}

IsLabelColumn(name) == \E n \in 1..Len(LABEL_COLUMNS) : LABEL_COLUMNS[n] = name

\* C29: the history update of a batch run changes only the classifier-owned
\* columns of the rows whose uid is in the delta: it adds, removes and
\* reorders no row, leaves the other columns alone and leaves every column of
\* a row whose uid is not in the delta as it was.
C29_UpdateTouchesOnlyLabels ==
    Processed =>
        /\ all_csv.st = "data"
        /\ Len(all_csv.rows) = Len(HistoryBefore.rows)
        /\ \A k \in 1..Len(HistoryBefore.rows) :
              /\ UidAt(all_csv, k) = UidAt(HistoryBefore, k)
              /\ \A n \in 1..Len(HistoryBefore.header) :
                    LET name == HistoryBefore.header[n]
                    IN  (~IsLabelColumn(name) \/ UidAt(HistoryBefore, k) \notin DeltaUids)
                           => Cell(all_csv.header, all_csv.rows[k], name)
                                = Cell(HistoryBefore.header, HistoryBefore.rows[k], name)

\* C30: after a batch run has updated the history file, the next write of a
\* scraper with the standard field list finds a header equal to that list and
\* appends its rows to the primary history file.
C30_NextWriteStaysPrimary ==
    (WriteDone /\ BatchDone /\ last_op.pre_all.st = "data" /\ last_op.ret > 0)
        => last_op.target = "all"

----------------------------------------------------------------------------
(* main.py: the pipeline runs *)

BetweenRuns == pipe.st = "idle" /\ pipe.runs > 0

\* how often a uid is held by the two history files, and how often a record
\* with the uid went through the classification loop
TimesPersisted(uid) ==
    Cardinality(RowsOf(all_csv, uid)) + Cardinality(RowsOf(v2_csv, uid))
TimesClassified(uid) ==
    Cardinality({i \in 1..Len(pipe.classified) : pipe.classified[i] = uid})
PersistedUids == KeysIn(all_csv, "uid") \cup KeysIn(v2_csv, "uid")

\* C24: across pipeline runs every ledger row, identified by its uid, is
\* persisted exactly once and classified exactly once, and no classified
\* row leaves the ledger.
C24_OncePerUid ==
    BetweenRuns =>
        /\ \A uid \in PersistedUids :
              TimesPersisted(uid) = 1 /\ TimesClassified(uid) = 1
        /\ \A i \in 1..Len(pipe.classified) : pipe.classified[i] \in PersistedUids

\* C28: the runner has at most one scraper job running at any time, starts
\* the processor only when every job of the run has ended, with return code
\* 0 or not, and so at most one process writes the ledger and the delta.
C28_OneProcessAtATime ==
    /\ Cardinality(pipe.running) <= 1
    /\ pipe.st = "processor" =>
          pipe.running = {} /\ pipe.todo = 0 /\ Len(pipe.exits) = pipe.jobs
    /\ proc.st = "running" => pipe.st = "processor"
    /\ (WriteDone /\ pipe.st = "job" /\ nops > pipe.mark) => pipe.running # {}

\* the processor ran after two jobs, the first of which failed
C28_Witness ==
    /\ pipe.st = "processor"
    /\ proc.st = "done"
    /\ pipe.exits = <<FALSE, TRUE>>
    /\ Len(proc.df) = 2

----------------------------------------------------------------------------
(* processor.py over relevance_service.py: order and termination *)

\* the provider calls under way
InFlight == {p \in Providers : task[p].st \in {"submitted", "attempting"}}

\* C23: the records are classified one after another: the loop turns to the
\* next record only when both provider calls of the current one have ended,
\* calls are under way only for the record the loop is at, and never more than
\* two of them.
C23_OneRecordAtATime ==
    /\ [](/\ Cardinality(InFlight) <= 2
          /\ InFlight # {} => proc.st = "running" /\ pc = "dispatched"
                                /\ proc.idx < Len(proc.df))
    /\ [][proc'.idx # proc.idx => InFlight = {}]_vars

\* the calls of the second record are under way, those of the first answered
C23_Witness ==
    /\ proc.st = "running"
    /\ proc.idx = 1
    /\ proc.processing_results[1].zai_status = "success"
    /\ proc.processing_results[1].or_status = "success"
    /\ \A p \in Providers : task[p].st = "attempting"

\* C27: every assess_relevance call that went to the providers returns a
\* verdict, each provider task ending after three posts at most, and a batch
\* run over its finite input gets past its last record and ends.
C27_Terminates ==
    /\ [](\A p \in Providers : attempts[p] <= 3 /\ task[p].attempt \in AttemptRange)
    /\ (pc = "dispatched") ~> (pc = "returned")
    /\ (proc.st = "running") ~> (proc.st = "done" /\ proc.idx = Len(proc.df))

\* a run of two records is over; for the last one a provider gave no answer
C27_Witness ==
    /\ BatchDone
    /\ Len(proc.df) = 2
    /\ proc.idx = 2
    /\ proc.processing_results[2].zai_status = "error"
    /\ proc.processing_results[2].or_status = "success"

====
